---- MODULE Spec2Model ----
(***************************************************************************)
(* Password hashing server (package server, HandleRequests and its four    *)
(* handlers).  Every HTTP request runs in its own goroutine; POST /hash    *)
(* starts a delayAndAdd goroutine and GET /shutdown starts a goroutine     *)
(* that calls pwdServer.Shutdown after shutdownDelay.  Each action below   *)
(* is one stretch of a goroutine between two accesses to shared state.     *)
(* Time is counted in whole seconds and kept as the age of each running    *)
(* timer.  A handler sleeps nowhere, and it and the critical section of    *)
(* delayAndAdd are a few instructions long: a second passes (Tick) only    *)
(* between them, never in the middle of one.  So the age of a delayAndAdd  *)
(* goroutine is both the time it has slept and time.Since(startTime).      *)
(***************************************************************************)
EXTENDS Integers, Sequences, FiniteSets, TLC

\* ---------------------------------------------------------------- bounds
NumReq == 3
MaxTime == 6

\* ------------------------------------------------------ program constants
pwdDelay == 5
shutdownDelay == 1
StatusOK == 200
StatusNotFound == 404
StatusMethodNotAllowed == 405
StatusNotAcceptable == 406
StatusUnprocessableEntity == 422
MicrosPerSecond == 1000000

Req == 1..NumReq
Methods == {"GET", "POST"}
Passwords == {"", "angryMonkey", "pw2"}
\* the last element of the request path, as path.Base returns it
Bases == {<<"1">>, <<"0", "x", "2">>, <<"a", "b", "c">>}

VARIABLES
    exited,          \* the process has ended (log.Fatal after ListenAndServe returns)
    shutDown,        \* the package variable shutDown
    shutDownSynced,  \* the write to shutDown has been followed by shutdownMutex.Unlock
    rwWriter,        \* shutdownMutex: request that called Lock (pending or holding), 0 if none
    rwReaders,       \* shutdownMutex: requests holding a read lock
    rwBlocked,       \* shutdownMutex: requests blocked in RLock behind a writer
    pwdMutexMap,     \* owner of the store mutex: 0 free, r a request, NumReq + r its delayAndAdd
    pwdHashedMap,    \* id -> base64 hash
    pwdHashedCount,
    pwdTotalTime,
    req,             \* the request goroutines
    proc,            \* the delayAndAdd goroutines, by the request that started them
    term             \* the goroutines started by handleShutDown, by request

vars == <<exited, shutDown, shutDownSynced, rwWriter, rwReaders, rwBlocked,
          pwdMutexMap, pwdHashedMap, pwdHashedCount, pwdTotalTime, req, proc, term>>

rwVars == <<rwWriter, rwReaders, rwBlocked>>
storeVars == <<pwdHashedMap, pwdHashedCount, pwdTotalTime>>

\* ------------------------------------------------------- pure functions

\* sha512 followed by base64.URLEncoding: an injective, never empty text
hashPassword(password) == "b64(sha512(" \o password \o "))"

\* value of one digit character, -1 if it is none
DigitVal(c) ==
    CASE c = "0" -> 0 [] c = "1" -> 1 [] c = "2" -> 2 [] c = "3" -> 3 [] c = "4" -> 4
      [] c = "5" -> 5 [] c = "6" -> 6 [] c = "7" -> 7 [] c = "8" -> 8 [] c = "9" -> 9
      [] c = "a" -> 10 [] c = "b" -> 11 [] c = "c" -> 12 [] c = "d" -> 13
      [] c = "e" -> 14 [] c = "f" -> 15 [] OTHER -> -1

RECURSIVE ParseDigits(_, _, _)
\* digits s in the given base, acc the value so far; -1 on a character that is no digit
ParseDigits(s, base, acc) ==
    IF s = <<>> THEN acc
    ELSE LET d == DigitVal(Head(s))
         IN IF d < 0 \/ d >= base THEN -1 ELSE ParseDigits(Tail(s), base, acc * base + d)

\* strconv.ParseInt(s, 0, 64): the value, or -1 for a syntax error
ParseValue(s) ==
    LET body == IF Len(s) >= 2 /\ s[1] = "0" /\ s[2] = "x" THEN SubSeq(s, 3, Len(s))
                ELSE IF Len(s) >= 2 /\ s[1] = "0" THEN SubSeq(s, 2, Len(s))
                ELSE s
        base == IF Len(s) >= 2 /\ s[1] = "0" /\ s[2] = "x" THEN 16
                ELSE IF Len(s) >= 2 /\ s[1] = "0" THEN 8
                ELSE 10
    IN IF body = <<>> THEN -1 ELSE ParseDigits(body, base, 0)

\* id, _ := strconv.ParseInt(s, 0, 64): the error is dropped and id is 0 with it
ParseInt(s) ==
    LET v == ParseValue(s)
    IN IF v < 0 THEN 0 ELSE v

\* a Go map read: the zero value "" for a key that is not there
MapGet(m, id) == IF id \in DOMAIN m THEN m[id] ELSE ""

\* m[id] = v
MapPut(m, id, v) == [k \in DOMAIN m \cup {id} |-> IF k = id THEN v ELSE m[k]]

\* time.Duration.Microseconds of a duration in seconds
Microseconds(d) == d * MicrosPerSecond

\* an id that is the counter itself
NextId_Zero(count) == count

\* the id handleHashPost hands out
NextId(count) == count + 1

\* a divisor that is off by one
Average_OffByOne(total, count) == total \div (count + 1)

\* total / count of handleStats
Average(total, count) == total \div count

\* the check count == 0 written count < 0: the division by zero panics and net/http
\* closes the connection with no 404
StatsResponse_Unguarded(total, count) ==
    IF count < 0
    THEN [status |-> StatusNotFound, total |-> 0, average |-> 0]
    ELSE IF count = 0
    THEN [status |-> 0, total |-> count, average |-> 0]
    ELSE [status |-> StatusOK, total |-> count, average |-> Average(total, count)]

\* what handleStats answers for the totals it read: 404 when count == 0, the Stat otherwise
StatsResponse(total, count) ==
    IF count = 0
    THEN [status |-> StatusNotFound, total |-> 0, average |-> 0]
    ELSE [status |-> StatusOK, total |-> count, average |-> Average(total, count)]

\* the check hashedPassword == "" left out
HashGetStatus_Unchecked(hashedPassword) == StatusOK

\* what handleHashGet answers for the map entry it read: 404 on the zero value
HashGetStatus(hashedPassword) ==
    IF hashedPassword = "" THEN StatusNotFound ELSE StatusOK

\* values an unsynchronised read of shutDown can return
ShutDownReads ==
    IF ~shutDown THEN {FALSE}
    ELSE IF shutDownSynced THEN {TRUE}
    ELSE {FALSE, TRUE}

\* ---------------------------------------------------------------- Init
IdleReq == [kind |-> "none", method |-> "", password |-> "", base |-> <<>>,
            pc |-> "idle", id |-> 0, status |-> 0,
            respId |-> 0, respHash |-> "", respTotal |-> 0, respAverage |-> 0]

NoProc == [pc |-> "none", id |-> 0, password |-> "", elapsed |-> 0]

NoTerm == [pc |-> "none", slept |-> 0]

Init ==
    /\ exited = FALSE
    /\ shutDown = FALSE
    /\ shutDownSynced = FALSE
    /\ rwWriter = 0
    /\ rwReaders = {}
    /\ rwBlocked = {}
    /\ pwdMutexMap = 0
    /\ pwdHashedMap = <<>>
    /\ pwdHashedCount = 0
    /\ pwdTotalTime = 0
    /\ req = [r \in Req |-> IdleReq]
    /\ proc = [r \in Req |-> NoProc]
    /\ term = [r \in Req |-> NoTerm]

\* requests are numbered in the order they arrive
CanStart(r) ==
    /\ ~exited
    /\ req[r].pc = "idle"
    /\ \A q \in Req : q < r => req[q].pc # "idle"

\* the method check placed before the shutdown check
Admit_MethodFirst(r, kind, wantMethod, method, password, base) ==
    /\ CanStart(r)
    /\ \E sd \in ShutDownReads :
         req' = [req EXCEPT ![r] =
                   [@ EXCEPT !.kind = kind, !.method = method,
                             !.password = password, !.base = base,
                             !.pc = IF sd \/ method # wantMethod THEN "done" ELSE "rlock",
                             !.status = IF method # wantMethod THEN StatusMethodNotAllowed
                                        ELSE IF sd THEN StatusNotAcceptable
                                        ELSE 0]]
    /\ UNCHANGED <<exited, shutDown, shutDownSynced, rwVars, pwdMutexMap,
                   storeVars, proc, term>>

\* the shutdown and method checks that open handleHashPost, handleHashGet and handleStats
Admit(r, kind, wantMethod, method, password, base) ==
    /\ CanStart(r)
    /\ \E sd \in ShutDownReads :
         req' = [req EXCEPT ![r] =
                   [@ EXCEPT !.kind = kind, !.method = method,
                             !.password = password, !.base = base,
                             !.pc = IF sd \/ method # wantMethod THEN "done" ELSE "rlock",
                             !.status = IF sd THEN StatusNotAcceptable
                                        ELSE IF method # wantMethod THEN StatusMethodNotAllowed
                                        ELSE 0]]
    /\ UNCHANGED <<exited, shutDown, shutDownSynced, rwVars, pwdMutexMap,
                   storeVars, proc, term>>

\* ------------------------------------------------------- shutdownMutex

\* shutdownMutex.RLock(): a reader behind a pending or holding writer blocks
RLock(r) ==
    /\ ~exited
    /\ req[r].pc = "rlock"
    /\ IF rwWriter = 0
       THEN /\ rwReaders' = rwReaders \cup {r}
            /\ req' = [req EXCEPT ![r].pc = "locked"]
            /\ UNCHANGED rwBlocked
       ELSE /\ rwBlocked' = rwBlocked \cup {r}
            /\ req' = [req EXCEPT ![r].pc = "rwait"]
            /\ UNCHANGED rwReaders
    /\ UNCHANGED <<exited, shutDown, shutDownSynced, rwWriter, pwdMutexMap,
                   storeVars, proc, term>>

\* the deferred shutdownMutex.RUnlock(), run when the handler returns
RUnlock(r) ==
    /\ ~exited
    /\ req[r].pc = "runlock"
    /\ rwReaders' = rwReaders \ {r}
    /\ req' = [req EXCEPT ![r].pc = "done"]
    /\ UNCHANGED <<exited, shutDown, shutDownSynced, rwWriter, rwBlocked,
                   pwdMutexMap, storeVars, proc, term>>

\* pwdMutexMap.Lock() of a request handler; handleHashGet has read its id from the path
StoreLock(r) ==
    /\ ~exited
    /\ \/ req[r].pc = "mlock"
       \/ req[r].pc = "locked" /\ req[r].kind \in {"get", "stats"}
    /\ pwdMutexMap = 0
    /\ pwdMutexMap' = r
    /\ req' = [req EXCEPT ![r] =
                 [@ EXCEPT !.pc = "critical",
                           !.id = IF req[r].kind = "get" THEN ParseInt(req[r].base) ELSE @]]
    /\ UNCHANGED <<exited, shutDown, shutDownSynced, rwVars, storeVars, proc, term>>

\* ------------------------------------------------------- handleHashPost

HashPostCheck(r) ==
    \E method \in Methods, password \in Passwords :
        Admit(r, "post", "POST", method, password, <<>>)

\* the check of the "password" form field without its return
HashPostPassword_NoReturn(r) ==
    /\ ~exited
    /\ req[r].kind = "post"
    /\ req[r].pc = "locked"
    /\ req' = [req EXCEPT ![r] =
                 [@ EXCEPT !.pc = "mlock",
                 !.status = IF req[r].password = ""
                            THEN StatusUnprocessableEntity ELSE 0]]
    /\ UNCHANGED <<exited, shutDown, shutDownSynced, rwVars, pwdMutexMap,
                   storeVars, proc, term>>

\* startTime := time.Now() and the check of the "password" form field
HashPostPassword(r) ==
    /\ ~exited
    /\ req[r].kind = "post"
    /\ req[r].pc = "locked"
    /\ req' = [req EXCEPT ![r] =
                 [@ EXCEPT !.pc = IF req[r].password = "" THEN "runlock" ELSE "mlock",
                 !.status = IF req[r].password = ""
                            THEN StatusUnprocessableEntity ELSE 0]]
    /\ UNCHANGED <<exited, shutDown, shutDownSynced, rwVars, pwdMutexMap,
                   storeVars, proc, term>>

\* pwdHashedCount++ ; id := pwdHashedCount ; pwdMutexMap.Unlock()
HashPostReserve_Increments(r) ==
    /\ ~exited
    /\ req[r].kind = "post"
    /\ req[r].pc = "critical"
    /\ pwdMutexMap = r
    /\ pwdMutexMap' = 0
    /\ pwdHashedCount' = pwdHashedCount + 1
    /\ req' = [req EXCEPT ![r] = [@ EXCEPT !.id = NextId(pwdHashedCount), !.pc = "spawn"]]
    /\ UNCHANGED <<exited, shutDown, shutDownSynced, rwVars, pwdHashedMap, pwdTotalTime,
                   proc, term>>

\* id := pwdHashedCount + 1 ; pwdMutexMap.Unlock()
HashPostReserve(r) ==
    /\ ~exited
    /\ req[r].kind = "post"
    /\ req[r].pc = "critical"
    /\ pwdMutexMap = r
    /\ pwdMutexMap' = 0
    /\ req' = [req EXCEPT ![r] = [@ EXCEPT !.id = NextId(pwdHashedCount), !.pc = "spawn"]]
    /\ UNCHANGED <<exited, shutDown, shutDownSynced, rwVars, storeVars, proc, term>>

\* go delayAndAdd( id, password, startTime ) and the response carrying the id
HashPostSpawn(r) ==
    /\ ~exited
    /\ req[r].kind = "post"
    /\ req[r].pc = "spawn"
    /\ proc' = [proc EXCEPT ![r] = [pc |-> "sleep", id |-> req[r].id,
                                    password |-> req[r].password,
                                    elapsed |-> 0]]
    /\ req' = [req EXCEPT ![r] =
                 [@ EXCEPT !.status = StatusOK, !.respId = req[r].id, !.pc = "runlock"]]
    /\ UNCHANGED <<exited, shutDown, shutDownSynced, rwVars, pwdMutexMap,
                   storeVars, term>>

\* ---------------------------------------------------------- delayAndAdd

\* the critical section entered without pwdMutexMap.Lock()
DelayLock_NoLock(r) ==
    /\ ~exited
    /\ proc[r].pc = "sleep"
    /\ proc[r].elapsed >= pwdDelay
    /\ proc' = [proc EXCEPT ![r].pc = "inc"]
    /\ UNCHANGED <<exited, shutDown, shutDownSynced, rwVars, pwdMutexMap, storeVars,
                   req, term>>

\* time.Sleep( pwdDelay ), hashPassword and pwdMutexMap.Lock()
DelayLock(r) ==
    /\ ~exited
    /\ proc[r].pc = "sleep"
    /\ proc[r].elapsed >= pwdDelay
    /\ pwdMutexMap = 0
    /\ pwdMutexMap' = NumReq + r
    /\ proc' = [proc EXCEPT ![r].pc = "inc"]
    /\ UNCHANGED <<exited, shutDown, shutDownSynced, rwVars, storeVars, req, term>>

\* pwdHashedCount++
DelayInc(r) ==
    /\ ~exited
    /\ proc[r].pc = "inc"
    /\ pwdHashedCount' = pwdHashedCount + 1
    /\ proc' = [proc EXCEPT ![r].pc = "put"]
    /\ UNCHANGED <<exited, shutDown, shutDownSynced, rwVars, pwdMutexMap,
                   pwdHashedMap, pwdTotalTime, req, term>>

\* pwdHashedMap[ id ] = hashedPassword
DelayPut(r) ==
    /\ ~exited
    /\ proc[r].pc = "put"
    /\ pwdHashedMap' = MapPut(pwdHashedMap, proc[r].id, hashPassword(proc[r].password))
    /\ proc' = [proc EXCEPT ![r].pc = "add"]
    /\ UNCHANGED <<exited, shutDown, shutDownSynced, rwVars, pwdMutexMap,
                   pwdHashedCount, pwdTotalTime, req, term>>

\* pwdTotalTime += time.Since(startTime).Microseconds() ; pwdMutexMap.Unlock()
\* (the goroutine keeps the elapsed time it added)
DelayAddUnlock(r) ==
    /\ ~exited
    /\ proc[r].pc = "add"
    /\ pwdTotalTime' = pwdTotalTime + Microseconds(proc[r].elapsed)
    /\ pwdMutexMap' = 0
    /\ proc' = [proc EXCEPT ![r] = [@ EXCEPT !.pc = "done"]]
    /\ UNCHANGED <<exited, shutDown, shutDownSynced, rwVars, pwdHashedMap,
                   pwdHashedCount, req, term>>

\* -------------------------------------------------------- handleHashGet

HashGetCheck(r) ==
    \E method \in Methods, base \in Bases :
        Admit(r, "get", "GET", method, "", base)

\* hashedPassword := pwdHashedMap[ id ] ; Unlock ; 404 on "" or the hash
HashGetLookup(r) ==
    /\ ~exited
    /\ req[r].kind = "get"
    /\ req[r].pc = "critical"
    /\ pwdMutexMap = r
    /\ pwdMutexMap' = 0
    /\ LET hashedPassword == MapGet(pwdHashedMap, req[r].id)
       IN req' = [req EXCEPT ![r] =
                    [@ EXCEPT !.status = HashGetStatus(hashedPassword),
                              !.respHash = hashedPassword,
                              !.pc = "runlock"]]
    /\ UNCHANGED <<exited, shutDown, shutDownSynced, rwVars, storeVars, proc, term>>

\* ---------------------------------------------------------- handleStats

StatsCheck(r) ==
    \E method \in Methods : Admit(r, "stats", "GET", method, "", <<>>)

\* total, count read under the mutex ; Unlock ; 404 on count == 0 or total / count
StatsRead(r) ==
    /\ ~exited
    /\ req[r].kind = "stats"
    /\ req[r].pc = "critical"
    /\ pwdMutexMap = r
    /\ pwdMutexMap' = 0
    /\ LET resp == StatsResponse(pwdTotalTime, pwdHashedCount)
       IN req' = [req EXCEPT ![r] =
                    [@ EXCEPT !.status = resp.status, !.respTotal = resp.total,
                              !.respAverage = resp.average, !.pc = "runlock"]]
    /\ UNCHANGED <<exited, shutDown, shutDownSynced, rwVars, storeVars, proc, term>>

\* ------------------------------------------------------- handleShutDown

\* the method check that opens handleShutDown
ShutDownEnter(r) ==
    /\ CanStart(r)
    /\ \E method \in Methods :
         req' = [req EXCEPT ![r] =
                   [@ EXCEPT !.kind = "shutdown", !.method = method,
                             !.pc = IF method = "GET" THEN "lock" ELSE "done",
                             !.status = IF method = "GET" THEN 0
                                        ELSE StatusMethodNotAllowed]]
    /\ UNCHANGED <<exited, shutDown, shutDownSynced, rwVars, pwdMutexMap,
                   storeVars, proc, term>>

\* a Lock() that does not wait for the readers to leave
ShutDownLock_NoDrain(r) ==
    /\ ~exited
    /\ req[r].pc = "lock"
    /\ rwWriter = 0
    /\ rwWriter' = r
    /\ req' = [req EXCEPT ![r].pc = "set"]
    /\ UNCHANGED <<exited, shutDown, shutDownSynced, rwReaders, rwBlocked,
                   pwdMutexMap, storeVars, proc, term>>

\* shutdownMutex.Lock(): one writer at a time; it holds the lock at once when no reader does
ShutDownLock(r) ==
    /\ ~exited
    /\ req[r].pc = "lock"
    /\ rwWriter = 0
    /\ rwWriter' = r
    /\ req' = [req EXCEPT ![r].pc = IF rwReaders = {} THEN "set" ELSE "drain"]
    /\ UNCHANGED <<exited, shutDown, shutDownSynced, rwReaders, rwBlocked,
                   pwdMutexMap, storeVars, proc, term>>

\* shutdownMutex.Lock() returns once the readers that held the lock have left
ShutDownDrained(r) ==
    /\ ~exited
    /\ req[r].pc = "drain"
    /\ rwReaders = {}
    /\ req' = [req EXCEPT ![r].pc = "set"]
    /\ UNCHANGED <<exited, shutDown, shutDownSynced, rwVars, pwdMutexMap,
                   storeVars, proc, term>>

\* shutDown = !shutDown
ShutDownSet_Toggle(r) ==
    /\ ~exited
    /\ req[r].pc = "set"
    /\ shutDown' = ~shutDown
    /\ req' = [req EXCEPT ![r].pc = "ack"]
    /\ UNCHANGED <<exited, shutDownSynced, rwVars, pwdMutexMap, storeVars, proc, term>>

\* shutDown = true
ShutDownSet(r) ==
    /\ ~exited
    /\ req[r].pc = "set"
    /\ shutDown' = TRUE
    /\ req' = [req EXCEPT ![r].pc = "ack"]
    /\ UNCHANGED <<exited, shutDownSynced, rwVars, pwdMutexMap, storeVars, proc, term>>

\* the acknowledgement and go func() { time.Sleep( shutdownDelay ) ; ... }
ShutDownSpawn(r) ==
    /\ ~exited
    /\ req[r].pc = "ack"
    /\ term' = [term EXCEPT ![r] = [pc |-> "sleep", slept |-> 0]]
    /\ req' = [req EXCEPT ![r] = [@ EXCEPT !.status = StatusOK, !.pc = "unlock"]]
    /\ UNCHANGED <<exited, shutDown, shutDownSynced, rwVars, pwdMutexMap,
                   storeVars, proc>>

\* the deferred shutdownMutex.Unlock(): the blocked readers get the lock
ShutDownUnlock(r) ==
    /\ ~exited
    /\ req[r].pc = "unlock"
    /\ rwWriter' = 0
    /\ rwReaders' = rwBlocked
    /\ rwBlocked' = {}
    /\ shutDownSynced' = TRUE
    /\ req' = [q \in Req |-> IF q = r THEN [req[q] EXCEPT !.pc = "done"]
                             ELSE IF q \in rwBlocked THEN [req[q] EXCEPT !.pc = "locked"]
                             ELSE req[q]]
    /\ UNCHANGED <<exited, shutDown, pwdMutexMap, storeVars, proc, term>>

\* pwdServer.Shutdown after the sleep: ListenAndServe returns and log.Fatal ends the process
Terminate(r) ==
    /\ ~exited
    /\ term[r].pc = "sleep"
    /\ term[r].slept >= shutdownDelay
    /\ exited' = TRUE
    /\ term' = [term EXCEPT ![r].pc = "done"]
    /\ UNCHANGED <<shutDown, shutDownSynced, rwVars, pwdMutexMap, storeVars, req, proc>>

\* request handlers that have started and not returned
InHandler == {r \in Req : req[r].pc \notin {"idle", "done"}}
\* delayAndAdd goroutines inside the critical section
InCommit == {r \in Req : proc[r].pc \in {"inc", "put", "add"}}
\* sleeping delayAndAdd goroutines
TimedProc == {r \in Req : proc[r].pc = "sleep"}
\* sleeping goroutines of handleShutDown
TimedTerm == {r \in Req : term[r].pc = "sleep"}

Min(a, b) == IF a < b THEN a ELSE b

\* one second passes
Tick ==
    /\ ~exited
    /\ InHandler = {} /\ InCommit = {}
    /\ TimedProc \cup TimedTerm # {}
    /\ \A r \in TimedProc : proc[r].elapsed < MaxTime
    /\ proc' = [r \in Req |-> IF r \in TimedProc
                               THEN [proc[r] EXCEPT !.elapsed = @ + 1] ELSE proc[r]]
    /\ term' = [r \in Req |-> IF r \in TimedTerm
                               THEN [term[r] EXCEPT !.slept = Min(@ + 1, shutdownDelay)]
                               ELSE term[r]]
    /\ UNCHANGED <<exited, shutDown, shutDownSynced, rwVars, pwdMutexMap, storeVars, req>>

Next ==
    \/ Tick
    \/ \E r \in Req :
         \/ HashPostCheck(r) \/ HashGetCheck(r) \/ StatsCheck(r) \/ ShutDownEnter(r)
         \/ RLock(r) \/ RUnlock(r) \/ StoreLock(r)
         \/ HashPostPassword(r) \/ HashPostReserve(r) \/ HashPostSpawn(r)
         \/ HashGetLookup(r)
         \/ StatsRead(r)
         \/ ShutDownLock(r) \/ ShutDownDrained(r) \/ ShutDownSet(r)
         \/ ShutDownSpawn(r) \/ ShutDownUnlock(r)
         \/ DelayLock(r) \/ DelayInc(r) \/ DelayPut(r) \/ DelayAddUnlock(r)
         \/ Terminate(r)

Spec == Init /\ [][Next]_vars

\* =================================================================
\* Properties
\* =================================================================

\* submissions that were answered with a handle
Accepted == {r \in Req : req[r].kind = "post" /\ req[r].status = StatusOK}
\* submissions whose delayAndAdd has returned
Committed == {r \in Req : proc[r].pc = "done"}
\* submissions whose delayAndAdd sleeps or commits
Pending == {r \in Req : proc[r].pc \in {"sleep", "inc", "put", "add"}}
\* delayAndAdd goroutines that have executed pwdHashedMap[ id ] = hashedPassword
Stored == {r \in Req : proc[r].pc \in {"add", "done"}}

\* the step in which handleHashGet reads the map and answers
LookupStep(g) ==
    req[g].kind = "get" /\ req[g].pc = "critical" /\ req'[g].pc = "runlock"

\* the step in which handleStats reads the totals and answers
StatsStep(q) ==
    req[q].kind = "stats" /\ req[q].pc = "critical" /\ req'[q].pc = "runlock"

RECURSIVE SumElapsed(_)
\* the sum of the microseconds the goroutines of S added to pwdTotalTime
SumElapsed(S) ==
    IF S = {} THEN 0
    ELSE LET r == CHOOSE x \in S : TRUE
         IN Microseconds(proc[r].elapsed) + SumElapsed(S \ {r})

\* C1: the handles returned to the N accepted submissions are pairwise distinct and
\* are exactly 1..N.
C1_HandlesAreOneToN ==
    /\ {req[r].respId : r \in Accepted} = 1..Cardinality(Accepted)
    /\ \A r1, r2 \in Accepted : r1 # r2 => req[r1].respId # req[r2].respId

\* C2: once the delayAndAdd of an accepted submission (secret s, handle h) has
\* returned, every GET /hash/h that reads the map answers 200 with the digest of s.
C2_GetReturnsOwnDigest ==
    [][\A r, g \in Req :
         (r \in Accepted /\ r \in Committed /\ LookupStep(g) /\ req[g].id = req[r].respId)
         => /\ req'[g].status = StatusOK
            /\ req'[g].respHash = hashPassword(req[r].password)]_vars

\* C3: an admitted GET /hash/{id} answers 404 whenever no delayAndAdd has stored a
\* result under the id, answers a digest only if one has, and the lookup changes
\* neither the map nor the totals.
C3_GetAbsentIsNotFound ==
    [][\A g \in Req :
         LookupStep(g)
         => LET put == {r \in Stored : proc[r].id = req[g].id}
            IN /\ put = {} => req'[g].status = StatusNotFound
               /\ req'[g].status \in {StatusNotFound, StatusOK}
               /\ req'[g].status = StatusOK
                    => /\ put # {}
                       /\ req'[g].respHash \in {hashPassword(proc[r].password) : r \in put}
               /\ storeVars' = storeVars]_vars

\* C3 witness: one id was looked up before its commit (404) and after it (200)
C3_Witness ==
    \E g1, g2 \in Req :
        /\ req[g1].kind = "get" /\ req[g1].pc = "done" /\ req[g1].status = StatusNotFound
        /\ req[g2].kind = "get" /\ req[g2].pc = "done" /\ req[g2].status = StatusOK
        /\ req[g1].id = req[g2].id

\* C4: when K >= 1 submissions have completed and none is pending, GET /stats
\* answers total = K and average = (sum of the K elapsed times) / K, integer division.
C4_StatsAfterCompletion ==
    [][\A q \in Req :
         (StatsStep(q) /\ Committed # {} /\ Pending = {})
         => /\ req'[q].status = StatusOK
            /\ req'[q].respTotal = Cardinality(Committed)
            /\ req'[q].respAverage = SumElapsed(Committed) \div Cardinality(Committed)]_vars

\* C4 witness: two commits with elapsed times of 5 s and 6 s, then the stats
C4_Witness ==
    \E q \in Req :
        /\ req[q].kind = "stats" /\ req[q].pc = "done" /\ req[q].status = StatusOK
        /\ Pending = {}
        /\ req[q].respTotal = 2
        /\ req[q].respAverage = 5500000

\* C5: a GET /stats that reads count == 0 answers 404 and divides nothing; it
\* answers with an average only when count >= 1.
C5_StatsNoDataIsNotFound ==
    [][\A q \in Req :
         StatsStep(q)
         => /\ pwdHashedCount = 0
                 => /\ req'[q].status = StatusNotFound
                    /\ req'[q].respTotal = 0 /\ req'[q].respAverage = 0
            /\ req'[q].status = StatusOK => pwdHashedCount >= 1]_vars

\* C5 witness: 404 from /stats while a submission is pending
C5_Witness ==
    \E q \in Req :
        /\ req[q].kind = "stats" /\ req[q].pc = "done" /\ req[q].status = StatusNotFound
        /\ \E r \in Req : proc[r].pc = "sleep"

\* a POST /hash with a password, or a GET /hash/{id}
WellFormed(r) ==
    \/ req[r].kind = "post" /\ req[r].method = "POST" /\ req[r].password # ""
    \/ req[r].kind = "get" /\ req[r].method = "GET"

\* C6: once a GET /shutdown has entered handleShutDown, every POST /hash and every
\* GET /hash/{id} that starts afterwards is answered 406 (requests are numbered in
\* the order they start; stated for the requests that carry no input error).
C6_RejectedOnceShutdownCalled ==
    \A s, r \in Req :
        (s < r /\ req[s].kind = "shutdown" /\ req[s].method = "GET"
           /\ WellFormed(r) /\ req[r].status # 0)
        => req[r].status = StatusNotAcceptable

\* the step in which handleHashPost reads the counter
ReserveStep(r) ==
    req[r].kind = "post" /\ req[r].pc = "critical" /\ req'[r].pc = "spawn"

\* the step in which handleHashPost starts delayAndAdd
SpawnStep(r) ==
    req[r].kind = "post" /\ req[r].pc = "spawn" /\ req'[r].pc = "runlock"

\* C7: no handler reads the counter for a new id or starts delayAndAdd in a state
\* where shutDown is true.
C7_NoReservationOnceShutDown ==
    [][\A r \in Req : (ReserveStep(r) \/ SpawnStep(r)) => ~shutDown]_vars

\* C8: every accepted submission is eventually committed, shutdown or not.  Once the
\* process has ended no step follows, so by then every accepted submission must
\* have been committed.
C8_AcceptedIsCommittedAtExit ==
    exited => \A r \in Accepted : r \in Committed

\* C9: every GET /shutdown eventually gets the exclusive lock, sets shutDown and
\* returns 200.  Once the process has ended no step follows, so by then every
\* GET /shutdown that entered the handler must have returned with 200.
C9_ShutdownAnsweredAtExit ==
    exited => \A r \in Req :
                  (req[r].kind = "shutdown" /\ req[r].method = "GET")
                  => req[r].pc = "done" /\ req[r].status = StatusOK

\* C10: the delayed call of pwdServer.Shutdown is started at most once per run.
C10_TerminationScheduledOnce ==
    Cardinality({r \in Req : term[r].pc # "none"}) <= 1

\* C11: outside the critical sections of the store mutex, pwdHashedCount equals the
\* number of ids that have a record in pwdHashedMap.
C11_CountIsNumberOfRecords ==
    pwdMutexMap = 0 => pwdHashedCount = Cardinality(DOMAIN pwdHashedMap)

\* the step in which delayAndAdd writes the map
PutStep(r) ==
    proc[r].pc = "put" /\ proc'[r].pc = "add"

\* C12: no delayAndAdd writes under an id that already has a record.
C12_HandleCommittedOnce ==
    [][\A r \in Req : PutStep(r) => proc[r].id \notin DOMAIN pwdHashedMap]_vars

\* handlers inside a critical section of the store mutex (they read there)
Reading == {r \in Req : req[r].pc = "critical"}

\* C13: a commit is atomic: at most one delayAndAdd is inside its three updates, no
\* handler reads the store while one is, and whenever none is the count has grown
\* by the number of commits and the total by the sum of their elapsed times.
C13_CommitIsAtomic ==
    /\ Cardinality(InCommit) <= 1
    /\ Reading # {} => InCommit = {}
    /\ InCommit = {} => /\ pwdHashedCount = Cardinality(Committed)
                        /\ pwdTotalTime = SumElapsed(Committed)

\* C13 witness: a handler reads the store after one commit while a second
\* delayAndAdd, its sleep over, is kept out by the mutex
C13_Witness ==
    /\ Reading # {}
    /\ Committed # {}
    /\ \E r \in Req : proc[r].pc = "sleep" /\ proc[r].elapsed >= pwdDelay

\* handlers between shutdownMutex.RLock() and the deferred RUnlock()
HoldsShared(r) ==
    /\ req[r].kind \in {"post", "get", "stats"}
    /\ req[r].pc \in {"locked", "mlock", "critical", "spawn", "runlock"}

\* shutdown handlers between the return of shutdownMutex.Lock() and the deferred Unlock()
HoldsExclusive(r) ==
    req[r].kind = "shutdown" /\ req[r].pc \in {"set", "ack", "unlock"}

\* no handler holds the read lock while one holds the write lock, which one at most does
Exclusion ==
    /\ Cardinality({r \in Req : HoldsExclusive(r)}) <= 1
    /\ (\E r \in Req : HoldsExclusive(r)) => \A q \in Req : ~HoldsShared(q)

\* the step in which handleShutDown writes shutDown
SetStep(r) ==
    req[r].pc = "set" /\ req'[r].pc = "ack"

\* C14: shutDown is written only by a handler that holds the exclusive lock, in a
\* state where no handler holds a shared one, and shared and exclusive holders
\* never coexist.
C14_FlagSetUnderExclusiveLock ==
    [][/\ shutDown' # shutDown => \E r \in Req : SetStep(r)
       /\ \A r \in Req : SetStep(r) => HoldsExclusive(r) /\ \A q \in Req : ~HoldsShared(q)
       /\ Exclusion /\ Exclusion']_vars

\* C14 witness: the flag is written while a request that started after the shutdown
\* request has been served and another one is blocked in RLock
C14_Witness ==
    \E s, q \in Req :
        /\ s < q
        /\ req[s].kind = "shutdown" /\ req[s].pc = "ack" /\ shutDown
        /\ req[q].pc = "done"
        /\ req[q].status \in {StatusOK, StatusNotFound, StatusUnprocessableEntity}
        /\ rwBlocked # {}

\* C15: shutDown starts false and, once true, is true in every later state.
C15_ShutDownMonotone ==
    /\ ~shutDown
    /\ [][shutDown => shutDown']_vars

\* C15 witness: shutDown is true after a second GET /shutdown has written it again
C15_Witness ==
    /\ shutDown
    /\ Cardinality({r \in Req : req[r].kind = "shutdown" /\ req[r].pc = "done"
                                  /\ req[r].status = StatusOK}) >= 2

\* the step in which a handler starts
EnterStep(r) ==
    req[r].pc = "idle" /\ req'[r].pc # "idle"

\* C16: a submit, retrieve or stats request that sees shutDown true is answered 406
\* in its first step, which touches neither lock nor the store and starts nothing,
\* and nothing happens to it afterwards; once the write of shutDown is visible this
\* is the answer whatever the method and the parameters.
C16_RejectedBeforeAnyLock ==
    [][\A r \in Req :
         /\ EnterStep(r) /\ req'[r].status = StatusNotAcceptable =>
              /\ req'[r].kind \in {"post", "get", "stats"}
              /\ req'[r].pc = "done"
              /\ req'[r].id = 0 /\ req'[r].respId = 0 /\ req'[r].respHash = ""
              /\ req'[r].respTotal = 0 /\ req'[r].respAverage = 0
              /\ UNCHANGED <<rwVars, pwdMutexMap, storeVars, proc, term>>
         /\ EnterStep(r) /\ req'[r].kind \in {"post", "get", "stats"}
                         /\ shutDown /\ shutDownSynced =>
              req'[r].status = StatusNotAcceptable
         /\ req[r].status = StatusNotAcceptable =>
              /\ req'[r] = req[r]
              /\ r \notin rwReaders' \cup rwBlocked'
              /\ pwdMutexMap' # r]_vars

\* C16 witness: a POST /hash sent with GET and a retrieve or stats request sent with
\* POST are both answered 406
C16_Witness ==
    \E r, q \in Req :
        /\ req[r].kind = "post" /\ req[r].method = "GET"
        /\ req[r].status = StatusNotAcceptable
        /\ req[q].kind \in {"get", "stats"} /\ req[q].method = "POST"
        /\ req[q].status = StatusNotAcceptable

\* a request the handlers reject for its method, its password field or its id
InputError(q) ==
    \/ q.kind = "post" /\ (q.method # "POST" \/ q.password = "")
    \/ q.kind \in {"get", "stats"} /\ q.method # "GET"
    \/ q.kind = "get" /\ ParseValue(q.base) < 0
    \/ q.kind = "shutdown" /\ q.method # "GET"

\* C17: no step of a request with an input error changes the counter, the map, the
\* total, shutDown, a delayAndAdd or a termination; such a request has no handle, no
\* delayAndAdd and no termination of its own, and is answered with an error status
\* with every lock it took released.
C17_InputErrorChangesNothing ==
    [][\A r \in Req :
         /\ req'[r] # req[r] /\ InputError(req'[r]) =>
              UNCHANGED <<exited, shutDown, storeVars, proc, term>>
         /\ InputError(req'[r]) =>
              /\ proc'[r] = NoProc /\ term'[r] = NoTerm
              /\ req'[r].kind = "post" => req'[r].id = 0
              /\ req'[r].respId = 0
              /\ req'[r].pc \notin {"mlock", "spawn", "lock", "drain", "set", "ack", "unlock"}
              /\ req'[r].pc = "done" =>
                   /\ req'[r].status \in {StatusNotFound, StatusMethodNotAllowed,
                                          StatusNotAcceptable, StatusUnprocessableEntity}
                   /\ r \notin rwReaders' \cup rwBlocked'
                   /\ pwdMutexMap' # r /\ rwWriter' # r]_vars

\* C17 witness: an empty password answered 422, a malformed id answered 404 and a
\* POST /shutdown answered 405
C17_Witness ==
    \E a, b, c \in Req :
        /\ req[a].kind = "post" /\ req[a].status = StatusUnprocessableEntity
        /\ req[b].kind = "get" /\ ParseValue(req[b].base) < 0
        /\ req[b].status = StatusNotFound
        /\ req[c].kind = "shutdown" /\ req[c].status = StatusMethodNotAllowed
        /\ req[a].pc = "done" /\ req[b].pc = "done"

\* a goroutine blocked in pwdMutexMap.Lock() while another one holds the mutex
WaitsForStore(r) ==
    /\ pwdMutexMap # 0
    /\ \/ req[r].pc = "mlock"
       \/ req[r].pc = "locked" /\ req[r].kind \in {"get", "stats"}
       \/ proc[r].pc = "sleep" /\ proc[r].elapsed >= pwdDelay

\* C18: every goroutine that waits for the store mutex gets it.  Once the process
\* has ended no step follows, so by then no goroutine may be waiting for it.
C18_NoWaiterAtExit ==
    exited => \A r \in Req : ~WaitsForStore(r)

\* the step in which delayAndAdd increments the counter
IncStep(r) ==
    proc[r].pc = "inc" /\ proc'[r].pc = "put"

C20_KeysWithinCount ==
    /\ \A k \in DOMAIN pwdHashedMap : 1 <= k /\ k <= pwdHashedCount
    /\ Cardinality(DOMAIN pwdHashedMap) <= pwdHashedCount
    /\ \A r \in Req :
         (req[r].kind = "get" /\ ParseValue(req[r].base) < 0
                              /\ req[r].pc \in {"critical", "runlock", "done"}
                              /\ req[r].status \notin {StatusMethodNotAllowed,
                                                       StatusNotAcceptable})
         => /\ req[r].id = 0
            /\ req[r].pc # "critical" => req[r].status = StatusNotFound /\ req[r].respHash = ""

\* C20 witness: a GET /hash/abc answered 404 while the map holds a record
C20_Witness ==
    \E r \in Req :
        /\ req[r].kind = "get" /\ ParseValue(req[r].base) < 0
        /\ req[r].pc = "done" /\ req[r].status = StatusNotFound
        /\ pwdHashedMap # <<>>

====
